---- MODULE Spec2Model ----
(***************************************************************************)
(* Model of src/models/session.rs: the `sessions` table and the operations *)
(* Session::find_by_token_and_update, Session::find_by_user_id,            *)
(* Session::revoke and NewSession::insert, called by concurrent request    *)
(* handlers.  Every SQL statement is one atomic step of the store; the     *)
(* only operation made of two statements is find_by_token_and_update,      *)
(* whose fallback read runs after its update transaction has failed.       *)
(***************************************************************************)
EXTENDS Integers, FiniteSets, Sequences, TLC

\* ---------------------------------------------------------------- bounds
MaxSessions == 2           \* rows the sessions table may hold
MaxTime == 4               \* last value of the store's clock
MaxBuilt == 1              \* records inserted in the runs of the staged construction

\* ---------------------------------------------------------------- inputs
Procs == {1, 2}            \* concurrent request handlers
ExistingUsers == {1, 2}    \* rows of the users table (foreign key target)
UserIds == {1, 2, 3}       \* user ids a caller may pass; 3 is no user
Tokens == {11, 12}         \* plaintext tokens
\* the (ip address, user agent) pairs that requests carry
ClientMeta == {<<[v |-> 4, a |-> 42], "A">>, <<[v |-> 6, a |-> 1], "B">>}

\* Option: None is the empty tuple, Some(x) the tuple of x.
None == <<>>
Some(x) == <<x>>

\* Result: Ok(value) or Err(error), error one of diesel::result::Error's
\* NotFound and DatabaseError. val is the tuple of the value of an Ok.
Ok(v) == [ok |-> TRUE, val |-> <<v>>, err |-> ""]
Error(kind) == [ok |-> FALSE, val |-> <<>>, err |-> kind]
Value(result) == result.val[1]

\* ------------------------------------------------------- pure functions
\* Session::hash_token: SHA-256 of the token. Modelled as a deterministic
\* function without collisions on Tokens whose values are no tokens.
hash_token(token) == 200 + ((token * 7) % 13)

\* IpNetwork::from(IpAddr): the host network of the address.
IpNetworkFrom(ip) == [ip |-> ip, prefix |-> IF ip.v = 4 THEN 32 ELSE 128]

\* Session::last_ip_address: IpNetwork::ip
last_ip_address(session) == session.last_ip_address.ip

\* NewSession whose builder stores the token itself
NewSessionPlainToken(user_id, token, ip_address, user_agent) ==
    [user_id |-> user_id,
     hashed_token |-> token,
     last_ip_address |-> IpNetworkFrom(ip_address),
     last_user_agent |-> user_agent]

\* NewSession whose builder drops the user agent
NewSessionNoUserAgent(user_id, token, ip_address, user_agent) ==
    [user_id |-> user_id,
     hashed_token |-> hash_token(token),
     last_ip_address |-> IpNetworkFrom(ip_address),
     last_user_agent |-> ""]

\* NewSessionBuilder: user_id, token, last_ip_address, last_user_agent, build
NewSession(user_id, token, ip_address, user_agent) ==
    [user_id |-> user_id,
     hashed_token |-> hash_token(token),
     last_ip_address |-> IpNetworkFrom(ip_address),
     last_user_agent |-> user_agent]

\* Session::new: NewSessionBuilder::default(), no field is set
NewSessionBuilderDefault ==
    [user_id |-> None, hashed_token |-> None, last_ip_address |-> None,
     last_user_agent |-> None]

\* the setters of NewSessionBuilder: user_id and last_user_agent are derived,
\* token hashes the token, last_ip_address converts the address
SetUserId(b, user_id) == [b EXCEPT !.user_id = Some(user_id)]
SetToken(b, token) == [b EXCEPT !.hashed_token = Some(hash_token(token))]
SetLastIpAddress(b, ip_address) ==
    [b EXCEPT !.last_ip_address = Some(IpNetworkFrom(ip_address))]
SetLastUserAgent(b, user_agent) == [b EXCEPT !.last_user_agent = Some(user_agent)]

\* build that gives last_user_agent a default when it was not set
buildDefaultUserAgent(b) ==
    IF b.user_id = None \/ b.hashed_token = None \/ b.last_ip_address = None
    THEN Error("UninitializedField")
    ELSE Ok([user_id |-> b.user_id[1],
             hashed_token |-> b.hashed_token[1],
             last_ip_address |-> b.last_ip_address[1],
             last_user_agent |-> IF b.last_user_agent = None THEN ""
                                 ELSE b.last_user_agent[1]])

\* NewSessionBuilder::build (derive(Builder)): no field of NewSession has a
\* default, so every field must have been set
build(b) ==
    IF \/ b.user_id = None
       \/ b.hashed_token = None
       \/ b.last_ip_address = None
       \/ b.last_user_agent = None
    THEN Error("UninitializedField")
    ELSE Ok([user_id |-> b.user_id[1],
             hashed_token |-> b.hashed_token[1],
             last_ip_address |-> b.last_ip_address[1],
             last_user_agent |-> b.last_user_agent[1]])

\* Optional that leaves Err(NotFound) an error
OptionalKeepsNotFound(result) ==
    IF result.ok THEN Ok(Some(Value(result))) ELSE result

\* Optional that turns every Err into Ok(None)
OptionalAbsorbsAll(result) ==
    IF result.ok THEN Ok(Some(Value(result))) ELSE Ok(None)

\* OptionalExtension::optional: Err(NotFound) becomes Ok(None)
Optional(result) ==
    IF result.ok THEN Ok(Some(Value(result)))
    ELSE IF result.err = "NotFound" THEN Ok(None)
    ELSE result

\* ----------------------------------------------------------------- state
VARIABLES
    sessions,   \* the sessions table: a sequence of rows, row i has id i
    now,        \* the store's clock (diesel::dsl::now), a logical clock: it
                \* reads the number of calls the store has received
    pending,    \* pending[p]: Some(the hashed token the find call of p filters
                \* by) once its update transaction has failed, else None
    revoked_ok, \* history: the ids of the sessions whose revoke returned true
    ret,        \* what the last completed call returned
    builder     \* the NewSessionBuilder a caller is filling

vars == <<sessions, now, pending, revoked_ok, ret, builder>>

\* the column defaults of the sessions table applied by INSERT
InsertedRow(new_session, id, at) ==
    [id |-> id,
     user_id |-> new_session.user_id,
     hashed_token |-> new_session.hashed_token,
     created_at |-> at,
     last_used_at |-> at,
     revoked |-> FALSE,
     last_ip_address |-> new_session.last_ip_address,
     last_user_agent |-> new_session.last_user_agent]

\* TokenFilter without .filter(revoked.eq(false))
TokenFilterAnyRevoked(table, hashed_token) ==
    {i \in 1..Len(table) : table[i].hashed_token = hashed_token}

\* TokenFilter without .filter(hashed_token.eq(..))
TokenFilterAnyToken(table, hashed_token) ==
    {i \in 1..Len(table) : ~table[i].revoked}

\* sessions::table.filter(revoked.eq(false)).filter(hashed_token.eq(..))
TokenFilter(table, hashed_token) ==
    {i \in 1..Len(table) :
        ~table[i].revoked /\ table[i].hashed_token = hashed_token}

\* TouchSet that also writes created_at
TouchSetWritesCreatedAt(row, at, ip_address, user_agent) ==
    [row EXCEPT !.created_at = at,
                !.last_used_at = at,
                !.last_ip_address = IpNetworkFrom(ip_address),
                !.last_user_agent = user_agent]

\* TouchSet without last_user_agent.eq(..)
TouchSetNoUserAgent(row, at, ip_address, user_agent) ==
    [row EXCEPT !.last_used_at = at,
                !.last_ip_address = IpNetworkFrom(ip_address)]

\* .set((last_used_at.eq(now), last_ip_address.eq(..), last_user_agent.eq(..)))
TouchSet(row, at, ip_address, user_agent) ==
    [row EXCEPT !.last_used_at = at,
                !.last_ip_address = IpNetworkFrom(ip_address),
                !.last_user_agent = user_agent]

\* TouchUpdate without the revoked filter on the UPDATE
TouchUpdateAnyRevoked(table, hashed_token, at, ip_address, user_agent) ==
    [i \in 1..Len(table) |->
        IF table[i].hashed_token = hashed_token
        THEN TouchSet(table[i], at, ip_address, user_agent)
        ELSE table[i]]

\* TouchUpdate that writes nothing: a SELECT in place of the UPDATE
TouchUpdateNothing(table, hashed_token, at, ip_address, user_agent) == table

\* TouchUpdate without the hashed_token filter on the UPDATE
TouchUpdateEveryToken(table, hashed_token, at, ip_address, user_agent) ==
    [i \in 1..Len(table) |->
        IF ~table[i].revoked
        THEN TouchSet(table[i], at, ip_address, user_agent)
        ELSE table[i]]

\* diesel::update(sessions).set(..): the table after the UPDATE statement
TouchUpdate(table, hashed_token, at, ip_address, user_agent) ==
    [i \in 1..Len(table) |->
        IF i \in TokenFilter(table, hashed_token)
        THEN TouchSet(table[i], at, ip_address, user_agent)
        ELSE table[i]]

\* Transaction that keeps the writes of a failed closure
TransactionNoRollback(before, after, result) == after

\* conn.transaction(|| ..): commits when the closure returns Ok, rolls back
\* when it returns Err
Transaction(before, after, result) == IF result.ok THEN after ELSE before

\* RevokeFilter without .filter(revoked.eq(false))
RevokeFilterAnyRevoked(table, user_id, session_id) ==
    {i \in 1..Len(table) :
        table[i].id = session_id /\ table[i].user_id = user_id}

\* RevokeFilter without .filter(user_id.eq(..))
RevokeFilterAnyUser(table, user_id, session_id) ==
    {i \in 1..Len(table) :
        table[i].id = session_id /\ ~table[i].revoked}

\* sessions::table.filter(id.eq(..)).filter(user_id.eq(..)).filter(revoked.eq(false))
RevokeFilter(table, user_id, session_id) ==
    {i \in 1..Len(table) :
        /\ table[i].id = session_id
        /\ table[i].user_id = user_id
        /\ ~table[i].revoked}

\* RevokeUpdate without .filter(id.eq(..)): every session of the user
RevokeUpdateEverySession(table, user_id, session_id) ==
    [i \in 1..Len(table) |->
        IF table[i].user_id = user_id /\ ~table[i].revoked
        THEN [table[i] EXCEPT !.revoked = TRUE]
        ELSE table[i]]

\* RevokeUpdate as a toggle: .set(revoked.eq(not(revoked))) on the session
\* of the user, revoked or not
RevokeUpdateToggle(table, user_id, session_id) ==
    [i \in 1..Len(table) |->
        IF table[i].id = session_id /\ table[i].user_id = user_id
        THEN [table[i] EXCEPT !.revoked = ~table[i].revoked]
        ELSE table[i]]

\* diesel::update(sessions).set(revoked.eq(true)): the table after the UPDATE
RevokeUpdate(table, user_id, session_id) ==
    [i \in 1..Len(table) |->
        IF i \in RevokeFilter(table, user_id, session_id)
        THEN [table[i] EXCEPT !.revoked = TRUE]
        ELSE table[i]]

\* RevokeResult as .map(|changed_rows| changed_rows <= 1)
RevokeResultAtMostOne(changed_rows) == Ok(changed_rows <= 1)

\* .map(|changed_rows| changed_rows == 1)
RevokeResult(changed_rows) == Ok(changed_rows = 1)

\* UserFilter without .filter(revoked.eq(false))
UserFilterAnyRevoked(table, user_id) ==
    {i \in 1..Len(table) : table[i].user_id = user_id}

\* sessions::table.filter(revoked.eq(false)).filter(user_id.eq(..))
UserFilter(table, user_id) ==
    {i \in 1..Len(table) : ~table[i].revoked /\ table[i].user_id = user_id}

\* the value a call hands to its caller, with the key the call looked up: the
\* hashed token of a find, the session id of a revoke
Returned(op, key, path, result) ==
    [op |-> op, key |-> key, path |-> path, ok |-> result.ok, val |-> result.val,
     err |-> result.err]

\* some request handler is free to make a call
Idle == {p \in Procs : pending[p] = None} # {}

Init ==
    /\ sessions = <<>>
    /\ now = 0
    /\ pending = [p \in Procs |-> None]
    /\ revoked_ok = {}
    /\ ret = Returned("none", <<>>, "none", Ok(None))
    /\ builder = NewSessionBuilderDefault

\* ------------------------------------------------------------- operations
\* NewSession::insert: INSERT .. RETURNING *. The statement fails when the
\* store fails (db_ok = FALSE) or user_id references no user.
Insert(user_id, token, ip_address, user_agent, db_ok) ==
    /\ Idle
    /\ now < MaxTime
    /\ Len(sessions) < MaxSessions
    /\ now' = now + 1
    /\ LET new_session == NewSession(user_id, token, ip_address, user_agent)
           row == InsertedRow(new_session, Len(sessions) + 1, now)
       IN IF db_ok /\ user_id \in ExistingUsers
          THEN /\ sessions' = Append(sessions, row)
               /\ ret' = Returned("insert", <<>>, "insert", Ok(row))
          ELSE /\ sessions' = sessions
               /\ ret' = Returned("insert", <<>>, "insert", Error("DatabaseError"))
    /\ UNCHANGED <<pending, revoked_ok, builder>>

\* Session::find_by_token_and_update, the update transaction (lines 56-73).
\* txn_ok = FALSE: the store fails the transaction (it is read-only, the
\* connection is lost). first is the row RETURNING lists first, 0 for none.
FindUpdate(p, token, ip_address, user_agent, txn_ok) ==
    /\ pending[p] = None
    /\ now < MaxTime
    /\ now' = now + 1
    /\ LET hashed_token == hash_token(token)
           matched == TokenFilter(sessions, hashed_token)
           updated == TouchUpdate(sessions, hashed_token, now, ip_address, user_agent)
       IN \E first \in (IF matched = {} THEN {0} ELSE matched) :
            LET get_result == IF ~txn_ok THEN Error("DatabaseError")
                              ELSE IF first = 0 THEN Error("NotFound")
                              ELSE Ok(updated[first])
                result == Optional(get_result)
            IN /\ sessions' = Transaction(sessions, updated, result)
               /\ IF result.ok
                  THEN /\ ret' = Returned("find", <<hashed_token>>, "update", result)
                       /\ pending' = pending
                  ELSE /\ ret' = ret
                       /\ pending' = [pending EXCEPT ![p] = Some(hashed_token)]
    /\ UNCHANGED <<revoked_ok, builder>>

\* Session::find_by_token_and_update, the fallback (line 74):
\* .or_else(|_| sessions.first(conn).optional())
FindFallback(p, db_ok) ==
    /\ pending[p] # None
    /\ LET hashed_token == pending[p][1]
           matched == TokenFilter(sessions, hashed_token)
       IN \E first \in (IF matched = {} THEN {0} ELSE matched) :
            LET get_result == IF ~db_ok THEN Error("DatabaseError")
                              ELSE IF first = 0 THEN Error("NotFound")
                              ELSE Ok(sessions[first])
            IN ret' = Returned("find", <<hashed_token>>, "fallback", Optional(get_result))
    /\ pending' = [pending EXCEPT ![p] = None]
    /\ UNCHANGED <<sessions, now, revoked_ok, builder>>

\* Session::find_by_user_id
FindByUserId(user_id, db_ok) ==
    /\ Idle
    /\ now < MaxTime
    /\ now' = now + 1
    /\ ret' = Returned("find_by_user_id", <<>>, "select",
                       IF db_ok
                       THEN Ok({sessions[i] : i \in UserFilter(sessions, user_id)})
                       ELSE Error("DatabaseError"))
    /\ UNCHANGED <<sessions, pending, revoked_ok, builder>>

\* Session::revoke
Revoke(user_id, session_id, db_ok) ==
    /\ Idle
    /\ now < MaxTime
    /\ now' = now + 1
    /\ LET result == IF db_ok
                     THEN RevokeResult(Cardinality(RevokeFilter(sessions, user_id, session_id)))
                     ELSE Error("DatabaseError")
       IN /\ sessions' = IF db_ok THEN RevokeUpdate(sessions, user_id, session_id)
                         ELSE sessions
          /\ ret' = Returned("revoke", <<session_id>>, "update", result)
          /\ revoked_ok' = IF result.ok /\ Value(result)
                           THEN revoked_ok \cup {session_id}
                           ELSE revoked_ok
    /\ UNCHANGED <<pending, builder>>

Next ==
    \/ \E u \in UserIds, t \in Tokens, m \in ClientMeta, ok \in BOOLEAN :
          Insert(u, t, m[1], m[2], ok)
    \/ \E p \in Procs, t \in Tokens, m \in ClientMeta, ok \in BOOLEAN :
          FindUpdate(p, t, m[1], m[2], ok)
    \/ \E p \in Procs, ok \in BOOLEAN : FindFallback(p, ok)
    \/ \E u \in UserIds, ok \in BOOLEAN : FindByUserId(u, ok)
    \/ \E u \in UserIds, s \in 1..(MaxSessions + 1), ok \in BOOLEAN :
          Revoke(u, s, ok)

Spec == Init /\ [][Next]_vars

\* ------------------------------------------------- the staged construction
\* the addresses and the user agents that requests carry
IpAddrs == {m[1] : m \in ClientMeta}
UserAgents == {m[2] : m \in ClientMeta}

\* a setter of the builder is called
SetField ==
    /\ \/ \E u \in UserIds : builder' = SetUserId(builder, u)
       \/ \E t \in Tokens : builder' = SetToken(builder, t)
       \/ \E ip \in IpAddrs : builder' = SetLastIpAddress(builder, ip)
       \/ \E ua \in UserAgents : builder' = SetLastUserAgent(builder, ua)
    /\ UNCHANGED <<sessions, now, pending, revoked_ok, ret>>

\* Session::new() starts a builder afresh
NewBuilder ==
    /\ builder' = NewSessionBuilderDefault
    /\ UNCHANGED <<sessions, now, pending, revoked_ok, ret>>

\* builder.build()?.insert(&conn): a failed build returns its error and
\* insert is not reached
BuildInsert(db_ok) ==
    /\ Len(sessions) < MaxBuilt
    /\ LET built == build(builder)
       IN IF built.ok
          THEN \E t \in Tokens :
                  /\ hash_token(t) = Value(built).hashed_token
                  /\ Insert(Value(built).user_id, t, Value(built).last_ip_address.ip,
                            Value(built).last_user_agent, db_ok)
          ELSE /\ ret' = Returned("build", <<>>, "build", built)
               /\ UNCHANGED <<sessions, now, pending, revoked_ok, builder>>

NextBuilder ==
    \/ SetField
    \/ NewBuilder
    \/ \E ok \in BOOLEAN : BuildInsert(ok)

SpecBuilder == Init /\ [][NextBuilder]_vars

\* ------------------------------------------------------------------ claims
SessionIds == 1..Len(sessions)

\* a step is this call of the update transaction of find
FindUpdateStep(p, t, m, ok) ==
    /\ IF ok THEN /\ ret'.op = "find" /\ ret'.path = "update"
                  /\ ret'.key = <<hash_token(t)>>
             ELSE pending[p] = None /\ pending'[p] = <<hash_token(t)>>
    /\ FindUpdate(p, t, m[1], m[2], ok)

\* a step is this fallback read of find
FindFallbackStep(p, ok) ==
    /\ ret'.op = "find" /\ ret'.path = "fallback"
    /\ pending[p] # None
    /\ FindFallback(p, ok)

\* a step is this call of revoke
RevokeStep(u, s, ok) ==
    /\ ret'.op = "revoke" /\ ret'.key = <<s>> /\ ret'.ok = ok
    /\ Revoke(u, s, ok)

\* a step is this call of insert
InsertStep(u, t, m, ok) ==
    /\ ret'.op = "insert" /\ ret'.ok = (ok /\ u \in ExistingUsers)
    /\ Insert(u, t, m[1], m[2], ok)

\* the fields a touch writes
Meta(row) == <<row.last_ip_address, row.last_user_agent, row.last_used_at>>

\* the metadata a request carrying m writes at time at
MetaOf(m, at) == <<IpNetworkFrom(m[1]), m[2], at>>

\* the sessions whose revoke has returned true and that carry this hashed token
RevokedWith(hashed_token) ==
    {i \in revoked_ok \cap SessionIds : sessions[i].hashed_token = hashed_token}

C2_ReturnedMatchesFilter ==
    (ret.op = "find" /\ ret.ok /\ Value(ret) # None) =>
        LET r == Value(ret)[1]
        IN /\ \E t \in Tokens : ret.key[1] = hash_token(t) /\ r.hashed_token = hash_token(t)
           /\ ~r.revoked
           /\ r.id \in SessionIds
           /\ ~sessions[r.id].revoked
           /\ sessions[r.id].hashed_token = r.hashed_token

\* the fallback read has returned a record while another session is revoked
C2_Witness ==
    /\ ret.op = "find" /\ ret.ok /\ Value(ret) # None
    /\ ret.path = "fallback"
    /\ \E i \in SessionIds : sessions[i].revoked

\* C3: in every step, each record either keeps last_ip_address,
\* last_user_agent and last_used_at, or takes all three from one find call
\* (its address, its user agent, the time of its update); a new record holds
\* the three values of its insert.
C3_MetadataAtomic ==
    [][\A i \in 1..Len(sessions') :
          IF i \in SessionIds
          THEN \/ Meta(sessions'[i]) = Meta(sessions[i])
               \/ \E m \in ClientMeta :
                     /\ Meta(sessions'[i]) = MetaOf(m, now)
                     /\ \E p \in Procs, t \in Tokens : FindUpdateStep(p, t, m, TRUE)
          ELSE \E m \in ClientMeta :
                     /\ Meta(sessions'[i]) = MetaOf(m, now)
                     /\ sessions'[i].created_at = now
                     /\ \E u \in UserIds, t \in Tokens : InsertStep(u, t, m, TRUE)
      ]_vars

\* a record was touched after its creation by a request other than the one
\* that created it, while a find call is between its two statements and the
\* table holds a second record
C3_Witness ==
    /\ \E i \in SessionIds :
          /\ sessions[i].last_used_at > sessions[i].created_at
          /\ ~sessions[i].revoked
    /\ \E p \in Procs : pending[p] # None
    /\ Len(sessions) = MaxSessions

\* the sessions a find by this hashed token may match
Live(hashed_token) ==
    {i \in SessionIds :
        ~sessions[i].revoked /\ sessions[i].hashed_token = hashed_token}

NoMatch(hashed_token) ==
    \A i \in SessionIds :
        sessions[i].revoked \/ sessions[i].hashed_token # hashed_token

\* C5: a find whose token matches no session that is not revoked changes no
\* record, and returns None whenever the store answers (on the update path
\* when the transaction completes, on the fallback path when the read does).
C5_NoMatchNoMutation ==
    [][/\ \A p \in Procs, t \in Tokens, m \in ClientMeta, ok \in BOOLEAN :
             (FindUpdateStep(p, t, m, ok) /\ NoMatch(hash_token(t))) =>
                /\ sessions' = sessions
                /\ ok => /\ ret'.op = "find" /\ ret'.ok /\ Value(ret') = None
                         /\ ret'.key = <<hash_token(t)>>
       /\ \A p \in Procs, ok \in BOOLEAN :
             (FindFallbackStep(p, ok) /\ NoMatch(pending[p][1])) =>
                /\ sessions' = sessions
                /\ ok => ret'.op = "find" /\ ret'.ok /\ Value(ret') = None
      ]_vars

\* a find by a token no session carries has returned None while the table
\* holds a session that is not revoked
C5_Witness ==
    /\ ret.op = "find" /\ ret.ok /\ Value(ret) = None
    /\ \E i \in SessionIds : ~sessions[i].revoked
    /\ \A i \in SessionIds : sessions[i].hashed_token # ret.key[1]

\* C6: a revoke the store executes returns true exactly when a record with
\* that id and that user_id exists and is not revoked, and that record is
\* then revoked; a revoke the store fails returns an error, not true.
C6_RevokeResult ==
    [][\A u \in UserIds, s \in 1..(MaxSessions + 1), ok \in BOOLEAN :
          RevokeStep(u, s, ok) =>
             LET found == \E i \in SessionIds :
                              /\ sessions[i].id = s
                              /\ sessions[i].user_id = u
                              /\ ~sessions[i].revoked
             IN /\ ret'.op = "revoke"
                /\ ret'.ok = ok
                /\ ok => Value(ret') = found
                /\ (ok /\ found) => sessions'[s].revoked
                /\ (s \in revoked_ok' \ revoked_ok) <=> (ok /\ found)
      ]_vars

\* a revoke of a session that an earlier revoke had revoked has returned false
C6_Witness ==
    /\ ret.op = "revoke" /\ ret.ok /\ Value(ret) = FALSE
    /\ ret.key[1] \in revoked_ok
    /\ sessions[ret.key[1]].revoked

\* C7: a revoke changes the revoked flag of no record but the one with its
\* session id and its user_id; with the id of a record of another user it
\* returns false and leaves that record as it was, matched by the filters of
\* find and of find_by_user_id when it was before; and only a revoke changes
\* a revoked flag.
C7_NoCrossUserRevoke ==
    [][/\ \A u \in UserIds, s \in 1..(MaxSessions + 1), ok \in BOOLEAN :
             RevokeStep(u, s, ok) =>
                \A i \in SessionIds :
                   /\ sessions'[i].revoked # sessions[i].revoked =>
                         (sessions[i].id = s /\ sessions[i].user_id = u)
                   /\ (sessions[i].id = s /\ sessions[i].user_id # u) =>
                         /\ sessions'[i] = sessions[i]
                         /\ ok => Value(ret') = FALSE
                         /\ ~sessions[i].revoked =>
                               /\ i \in TokenFilter(sessions', sessions[i].hashed_token)
                               /\ i \in UserFilter(sessions', sessions[i].user_id)
       /\ (\E i \in SessionIds : sessions'[i].revoked # sessions[i].revoked) =>
             \E u \in UserIds, s \in 1..(MaxSessions + 1) : RevokeStep(u, s, TRUE)
      ]_vars

\* a revoke by the id of a session that exists and is not revoked has
\* returned false: the user_id was not the session's
C7_Witness ==
    /\ ret.op = "revoke" /\ ret.ok /\ Value(ret) = FALSE
    /\ ret.key[1] \in SessionIds
    /\ ~sessions[ret.key[1]].revoked

\* C8: no step removes a record, changes its id or sets revoked back to false.
C8_RevokedIsTerminal ==
    [][/\ Len(sessions') >= Len(sessions)
       /\ \A i \in SessionIds :
             /\ sessions'[i].id = sessions[i].id
             /\ sessions[i].revoked => sessions'[i].revoked
      ]_vars

\* a session was inserted after the revocation of another, which is still
\* stored and revoked
C8_Witness ==
    /\ ret.op = "insert" /\ ret.ok
    /\ \E i \in revoked_ok \cap SessionIds : sessions[i].revoked /\ i < Value(ret).id

\* C9: the update transaction of a find hands the call to the fallback read
\* exactly when the store fails the transaction; a transaction that completes
\* and matches no row returns None from the update path; and a step that
\* hands a call to the fallback read is a step of a transaction the store
\* failed, never one of a transaction that completed.
C9_FallbackOnlyOnFailure ==
    [][/\ \A p \in Procs, t \in Tokens, m \in ClientMeta, ok \in BOOLEAN :
             FindUpdateStep(p, t, m, ok) =>
                /\ (pending'[p] # None) <=> ~ok
                /\ (ok /\ NoMatch(hash_token(t))) =>
                      /\ ret'.op = "find" /\ ret'.path = "update"
                      /\ ret'.ok /\ Value(ret') = None
                      /\ pending'[p] = None
       /\ \A p \in Procs :
             (pending[p] = None /\ pending'[p] # None) =>
                /\ \E t \in Tokens, m \in ClientMeta : FindUpdate(p, t, m[1], m[2], FALSE)
                /\ ret'.op \in {"find", "none"} =>
                      \A t \in Tokens, m \in ClientMeta : ~FindUpdate(p, t, m[1], m[2], TRUE)
      ]_vars

\* the update path has returned None with no call left at its fallback read
C9_Witness ==
    /\ ret.op = "find" /\ ret.ok /\ ret.path = "update" /\ Value(ret) = None
    /\ \A p \in Procs : pending[p] = None
    /\ sessions # <<>>

FindByUserIdStep(u, ok) ==
    /\ ret'.op = "find_by_user_id"
    /\ FindByUserId(u, ok)

\* the call returns the store's error to its caller
Propagated(r) == ~r.ok /\ r.err = "DatabaseError"

\* every storage failure outside find is returned to the caller: a failed
\* insert (the store fails, or user_id references no user), a failed
\* find_by_user_id, a failed revoke; and so is a failure of the fallback read
PropagatedElsewhere ==
    /\ \A u \in UserIds, t \in Tokens, m \in ClientMeta, ok \in BOOLEAN :
          (InsertStep(u, t, m, ok) /\ ~(ok /\ u \in ExistingUsers)) =>
             Propagated(ret') /\ sessions' = sessions
    /\ \A u \in UserIds : FindByUserIdStep(u, FALSE) => Propagated(ret')
    /\ \A u \in UserIds, s \in 1..(MaxSessions + 1) :
          RevokeStep(u, s, FALSE) => Propagated(ret') /\ sessions' = sessions
    /\ \A p \in Procs : FindFallbackStep(p, FALSE) => Propagated(ret')

\* C11, as stated: find absorbs the failure of its update transaction only
\* when the fallback read matches a record; with no match the failure is
\* returned to the caller as an error, as every other storage failure is.
C11_AsStated ==
    [][/\ PropagatedElsewhere
       /\ \A p \in Procs :
             FindFallbackStep(p, TRUE) =>
                IF Live(pending[p][1]) # {}
                THEN ret'.ok /\ Value(ret') # None
                ELSE Propagated(ret')
      ]_vars

\* C11, amended: find absorbs the failure of its update transaction whenever
\* the fallback read itself succeeds, whether that read matches a record
\* (Some) or none (None); the update transaction's failure never reaches the
\* caller by itself, the update path answers None only when no record
\* matched, no other call absorbs a failure, and a failure of the
\* fallback read, of insert, of find_by_user_id or of revoke is returned to
\* the caller as an error.
C11_AbsorbsOnlyInFallback ==
    [][/\ PropagatedElsewhere
       /\ \A p \in Procs, t \in Tokens, m \in ClientMeta :
             FindUpdateStep(p, t, m, FALSE) =>
                /\ ret' = ret
                /\ pending'[p] = Some(hash_token(t))
       /\ (ret'.op = "find" /\ ret'.path = "update" /\ now' # now /\ pending' = pending) =>
             /\ ret'.ok
             /\ (Value(ret') = None) <=> NoMatch(ret'.key[1])
       /\ \A p \in Procs :
             FindFallbackStep(p, TRUE) =>
                /\ ret'.ok
                /\ (Value(ret') # None) <=> (Live(pending[p][1]) # {})
      ]_vars

\* the fallback read has failed and its error has reached the caller, while a
\* session that is not revoked carries the token
C11_Witness ==
    /\ ret.op = "find" /\ ret.path = "fallback"
    /\ Propagated(ret)
    /\ Live(ret.key[1]) # {}

\* C12: find_by_user_id(user_id) changes no record and returns exactly the
\* stored records of that user that are not revoked: each returned record is
\* a stored record of the user with revoked = false, each such stored record
\* is returned, and the result is empty when every session of the user is
\* revoked.
C12_FindByUserExact ==
    [][\A u \in UserIds :
          FindByUserIdStep(u, TRUE) =>
             /\ sessions' = sessions
             /\ ret'.ok
             /\ \A r \in Value(ret') :
                   /\ r.id \in SessionIds
                   /\ r = sessions[r.id]
                   /\ r.user_id = u
                   /\ ~r.revoked
             /\ \A i \in SessionIds :
                   (sessions[i].user_id = u /\ ~sessions[i].revoked) =>
                      sessions[i] \in Value(ret')
             /\ (\A i \in SessionIds : sessions[i].user_id = u => sessions[i].revoked)
                   => Value(ret') = {}
      ]_vars

\* find_by_user_id has listed a session of a user while another session of
\* that user is stored revoked
C12_Witness ==
    /\ ret.op = "find_by_user_id" /\ ret.ok
    /\ \E r \in Value(ret) :
          \E i \in revoked_ok \cap SessionIds :
             sessions[i].revoked /\ sessions[i].user_id = r.user_id

\* the fields of a record that its insertion fixes
Fixed(row) == <<row.id, row.user_id, row.hashed_token, row.created_at>>

\* C13: no step changes the id, user_id, hashed_token or created_at of a
\* stored record: not a find on the update path or on the fallback path,
\* not a revoke, not an insert of another record, not a find_by_user_id.
C13_FixedFieldsImmutable ==
    [][\A i \in SessionIds :
          /\ i \in 1..Len(sessions')
          /\ Fixed(sessions'[i]) = Fixed(sessions[i])
      ]_vars

\* a record has been touched after its creation and then revoked
C13_Witness ==
    \E i \in revoked_ok \cap SessionIds :
       /\ sessions[i].revoked
       /\ sessions[i].last_used_at > sessions[i].created_at
       /\ ret.op = "revoke"

\* C14: an insert that succeeds adds exactly one record after the stored
\* ones, which stay as they were, and returns the added record: its id is
\* the id of no record stored before, revoked = false, last_used_at =
\* created_at = the time of the insert, and user_id, hashed_token =
\* hash_token(token), the address and the user agent are those given to the
\* builder; the ids of the stored records are pairwise different.
C14_InsertReturnsNewRecord ==
    [][\A u \in UserIds, t \in Tokens, m \in ClientMeta :
          (InsertStep(u, t, m, TRUE) /\ u \in ExistingUsers) =>
             /\ ret'.ok
             /\ Len(sessions') = Len(sessions) + 1
             /\ \A i \in SessionIds : sessions'[i] = sessions[i]
             /\ LET r == Value(ret')
                IN /\ r = sessions'[Len(sessions')]
                   /\ \A i \in SessionIds : sessions[i].id # r.id
                   /\ ~r.revoked
                   /\ r.created_at = now
                   /\ r.last_used_at = r.created_at
                   /\ r.user_id = u
                   /\ r.hashed_token = hash_token(t)
                   /\ last_ip_address(r) = m[1]
                   /\ r.last_user_agent = m[2]
             /\ \A i, j \in 1..Len(sessions') :
                   sessions'[i].id = sessions'[j].id => i = j
      ]_vars

\* an insert has returned a second record while the first, touched since its
\* creation, is stored
C14_Witness ==
    /\ ret.op = "insert" /\ ret.ok
    /\ Value(ret).id = 2
    /\ Value(ret) = sessions[2]
    /\ sessions[1].last_used_at > sessions[1].created_at

\* the numbers a record holds
Numbers(row) ==
    {row.id, row.user_id, row.hashed_token, row.created_at, row.last_used_at}

\* no stored record and no find between its two statements holds a token:
\* what they hold in its place is the hash of a token
StoresNoPlaintext(table, waiting) ==
    /\ \A i \in 1..Len(table) :
          /\ Numbers(table[i]) \cap Tokens = {}
          /\ \E t \in Tokens : table[i].hashed_token = hash_token(t)
    /\ \A p \in Procs :
          waiting[p] # None =>
             /\ waiting[p][1] \notin Tokens
             /\ \E t \in Tokens : waiting[p][1] = hash_token(t)

\* C15: the record an insert stores carries hash_token(T) of the token T
\* given to the builder; in every state no stored record holds a token, only
\* hashes of tokens; and a find presented with T reads and writes the
\* records by hash_token(T) alone: the records it changes and the record it
\* returns carry hash_token(T), and so does the filter its fallback read uses.
C15_OnlyDigestStored ==
    [][/\ StoresNoPlaintext(sessions', pending')
       /\ \A u \in UserIds, t \in Tokens, m \in ClientMeta :
             (InsertStep(u, t, m, TRUE) /\ u \in ExistingUsers) =>
                /\ sessions'[Len(sessions')].hashed_token = hash_token(t)
                /\ sessions'[Len(sessions')].hashed_token # t
       /\ \A p \in Procs, t \in Tokens, m \in ClientMeta :
             /\ FindUpdateStep(p, t, m, TRUE) =>
                   /\ \A i \in SessionIds :
                         sessions'[i] # sessions[i] <=>
                            (~sessions[i].revoked
                                /\ sessions[i].hashed_token = hash_token(t))
                   /\ Value(ret') # None =>
                         Value(ret')[1].hashed_token = hash_token(t)
             /\ FindUpdateStep(p, t, m, FALSE) =>
                   pending'[p] = Some(hash_token(t))
      ]_vars

\* a find has returned the record stored for its token while a record stored
\* for the other token was left as it was inserted
C15_Witness ==
    /\ ret.op = "find" /\ ret.ok /\ Value(ret) # None
    /\ Value(ret)[1].hashed_token = ret.key[1]
    /\ \E i \in SessionIds :
          /\ sessions[i].hashed_token # ret.key[1]
          /\ sessions[i].last_used_at = sessions[i].created_at

\* the fields of NewSession that a builder has not set
Missing(b) ==
    {f \in {"user_id", "hashed_token", "last_ip_address", "last_user_agent"} :
        b[f] = None}

\* C16: build fails with an error exactly when at least one of user_id,
\* token, last_ip_address, last_user_agent has not been set, and a failed
\* build persists nothing: the call returns the build error and the table is
\* as it was; otherwise build yields the record of the values set (the hash
\* of the token, the network of the address), which is persisted only by the
\* insert that follows.
C16_BuildValidates ==
    [][/\ build(builder').ok <=> (Missing(builder') = {})
       /\ \A ok \in BOOLEAN :
             (ret'.op \in {"build", "insert"} /\ BuildInsert(ok)) =>
                IF Missing(builder) # {}
                THEN /\ ret'.op = "build"
                     /\ ~ret'.ok /\ ret'.err = "UninitializedField"
                     /\ sessions' = sessions
                ELSE /\ ret'.op = "insert"
                     /\ \E u \in UserIds, t \in Tokens, ip \in IpAddrs, ua \in UserAgents :
                           /\ builder = SetLastUserAgent(SetLastIpAddress(
                                 SetToken(SetUserId(NewSessionBuilderDefault, u), t), ip), ua)
                           /\ Value(build(builder)) = NewSession(u, t, ip, ua)
                           /\ IF ret'.ok
                              THEN /\ Len(sessions') = Len(sessions) + 1
                                   /\ Value(ret').user_id = u
                                   /\ Value(ret').hashed_token = hash_token(t)
                                   /\ last_ip_address(Value(ret')) = ip
                                   /\ Value(ret').last_user_agent = ua
                              ELSE sessions' = sessions
      ]_vars

\* a build has failed for a builder that lacks the user agent alone, and
\* nothing is stored
C16_Witness ==
    /\ ret.op = "build" /\ ~ret.ok
    /\ Missing(builder) = {"last_user_agent"}
    /\ sessions = <<>>

\* what holds of a find and a revoke of one session in whatever order their
\* statements run: no statement of a find changes a revoked flag; a record
\* whose revoke returned true is stored revoked; a statement of a find leaves
\* the metadata of a record as it was or sets all of it to the values of
\* that find, and leaves a revoked record as it was; a revoke changes no
\* metadata
RevokeWinsRace ==
    /\ \A i \in revoked_ok' : i \in 1..Len(sessions') /\ sessions'[i].revoked
    /\ \A p \in Procs, t \in Tokens, m \in ClientMeta, ok \in BOOLEAN :
          FindUpdateStep(p, t, m, ok) =>
             \A i \in SessionIds :
                /\ sessions'[i].revoked = sessions[i].revoked
                /\ Meta(sessions'[i]) \in {Meta(sessions[i]), MetaOf(m, now)}
                /\ sessions[i].revoked => sessions'[i] = sessions[i]
    /\ \A p \in Procs, ok \in BOOLEAN :
          FindFallbackStep(p, ok) => sessions' = sessions
    /\ \A u \in UserIds, s \in 1..(MaxSessions + 1), ok \in BOOLEAN :
          RevokeStep(u, s, ok) =>
             \A i \in SessionIds : Meta(sessions'[i]) = Meta(sessions[i])

C18_AtMostOneRevoke ==
    [][/\ \A u \in UserIds, s \in 1..(MaxSessions + 1), ok \in BOOLEAN :
             (RevokeStep(u, s, ok) /\ ret'.ok /\ Value(ret')) =>
                /\ s \notin revoked_ok
                /\ s \in SessionIds
                /\ ~sessions[s].revoked
                /\ sessions'[s].revoked
                /\ revoked_ok' = revoked_ok \cup {s}
       /\ Cardinality(revoked_ok') <=
             Cardinality({i \in 1..Len(sessions') : sessions'[i].revoked})
      ]_vars

\* a second revoke of the one session whose revoke has returned true has
\* returned false, while another session is stored unrevoked
C18_Witness ==
    /\ ret.op = "revoke" /\ ret.ok /\ Value(ret) = FALSE
    /\ revoked_ok = {ret.key[1]}
    /\ \E i \in SessionIds : ~sessions[i].revoked

\* the records a step changes
Changed == {i \in SessionIds : sessions'[i] # sessions[i]}

\* C19: one find changes at most one record, the record it returns; every
\* other record, also one that is not revoked and carries the same hashed
\* token, is left as it was.
C19_AsStated ==
    [][/\ \A p \in Procs, t \in Tokens, m \in ClientMeta, ok \in BOOLEAN :
             FindUpdateStep(p, t, m, ok) =>
                /\ Cardinality(Changed) <= 1
                /\ \A i \in Changed :
                      /\ ok
                      /\ Value(ret') = Some(sessions'[i])
       /\ \A p \in Procs, ok \in BOOLEAN :
             FindFallbackStep(p, ok) => Changed = {}
      ]_vars

\* C20: a revoke adds and removes no record and changes no record but the
\* one with its session id, of which it changes the revoked flag alone
\* (last_used_at, last_ip_address, last_user_agent and the fields fixed at
\* insertion stay); a revoke that returns false or an error changes nothing.
C20_RevokeFrame ==
    [][\A u \in UserIds, s \in 1..(MaxSessions + 1), ok \in BOOLEAN :
          RevokeStep(u, s, ok) =>
             /\ Len(sessions') = Len(sessions)
             /\ \A i \in SessionIds :
                   /\ sessions[i].id # s => sessions'[i] = sessions[i]
                   /\ sessions'[i] = [sessions[i] EXCEPT !.revoked = sessions'[i].revoked]
             /\ (~ret'.ok \/ ~Value(ret')) => sessions' = sessions
             /\ (ret'.ok /\ Value(ret')) => Changed = {s}
      ]_vars

\* a revoke has returned true for a session of a user who has another
\* session, stored unrevoked
C20_Witness ==
    /\ ret.op = "revoke" /\ ret.ok /\ Value(ret) = TRUE
    /\ \E i \in SessionIds :
          /\ i # ret.key[1]
          /\ sessions[i].user_id = sessions[ret.key[1]].user_id
          /\ ~sessions[i].revoked

====
